---- MODULE Spec2Model ----
(***************************************************************************)
(* A model of nessus_parser.py: main() parses one Nessus XML v2 document   *)
(* into hosts_data / vulnerabilities / compliance_items and then writes    *)
(* the Excel workbook.  The document is read element by element, so each   *)
(* ReportHost and ReportItem is an input chosen when the parser reaches    *)
(* it; `doc` records what has been read.                                   *)
(***************************************************************************)
EXTENDS Integers, Sequences, FiniteSets, TLC

VARIABLES pc, file, doc, ip, fqdn, os_name, host_vuln_counts,
          hosts_data, vulnerabilities, compliance_items,
          workbook, cells_str, cells_num, chart, output_written

vars == <<pc, file, doc, ip, fqdn, os_name, host_vuln_counts,
          hosts_data, vulnerabilities, compliance_items,
          workbook, cells_str, cells_num, chart, output_written>>

(* ------------------------------ bounds --------------------------------- *)

\* At most MaxHosts ReportHost elements in a document.
MaxHosts == 2

\* At most MaxItems ReportItem elements in a document (over all hosts).
MaxItems == 2

(* --------------------------- Python values ----------------------------- *)

\* Python's None (a missing attribute, a tag without text, a missing child).
None == "None"

\* dict.get(k, default)
Get(d, k, default) == IF k \in DOMAIN d THEN d[k] ELSE default

\* The empty dict.
EmptyDict == << >>

RECURSIVE SumTo(_, _)
\* f[1] + ... + f[n]
SumTo(f, n) == IF n = 0 THEN 0 ELSE f[n] + SumTo(f, n - 1)

(* --------------------------- configuration ----------------------------- *)

SEVERITY_MAP ==
    (0 :> "Info") @@ (1 :> "Low") @@ (2 :> "Medium") @@ (3 :> "High") @@ (4 :> "Critical")

COLORS ==
    ("Critical" :> "#D20F0F") @@ ("High" :> "#FF8000") @@ ("Medium" :> "#FFCC00")
    @@ ("Low" :> "#00CC00") @@ ("Info" :> "#0000FF")

\* The pluginFamily literal that routes an item to compliance_items.
ComplianceFamily == "Policy Compliance"

\* The default of host_props.get(..., 'N/A').
NA == "N/A"

\* args.file
FilePath == "scan.nessus"

\* datetime.now().strftime(...) of the run.
ScanDate == "2026-01-01 00:00:00"

(* --------------------------- the documents ----------------------------- *)

Tag(name, text) == [name |-> name, text |-> text]

\* The HostProperties sub-trees of the modelled documents: the sub-tree
\* missing; all three tags with text; host-ip with text, host-fqdn without
\* text (<tag name="host-fqdn"/>) and no operating-system tag.
PropTrees ==
    { [present |-> FALSE, tags |-> << >>],
      [present |-> TRUE,
       tags |-> << Tag("host-ip", "10.0.0.5"), Tag("host-fqdn", "a.example"),
                   Tag("operating-system", "Linux") >>],
      [present |-> TRUE,
       tags |-> << Tag("host-ip", "10.0.0.6"), Tag("host-fqdn", None) >>] }

Families == {ComplianceFamily, "General"}

\* The severity attributes of the modelled documents; None: no attribute.
SevAttrs == {"0", "1", "2", "3", "4", "7", "abc", None}

\* A ReportItem: its attributes and the text of its child elements.
Item(family, sev) ==
    [attrib |-> (("pluginID" :> "19506") @@ ("pluginName" :> "Scan Info")
                 @@ ("pluginFamily" :> family) @@ ("port" :> "0")
                 @@ ("protocol" :> "tcp") @@ ("svc_name" :> "general")
                 @@ (IF sev = None THEN EmptyDict ELSE ("severity" :> sev))),
     children |-> ("description" :> "text")]

Items == { Item(f, s) : f \in Families, s \in SevAttrs }

\* item.attrib.get(name)
Attr(item, name) == Get(item.attrib, name, None)

\* item.findtext(tag)
FindText(item, tag) == Get(item.children, tag, None)

\* The strings of SevAttrs that int() accepts, with their values.
IntLiterals ==
    ("0" :> 0) @@ ("1" :> 1) @@ ("2" :> 2) @@ ("3" :> 3) @@ ("4" :> 4) @@ ("7" :> 7)

\* A faulty variant of ParseSeverity: a severity that does not parse counts as 0.
ParseSeverity_DefaultZero(attr) ==
    [ok |-> TRUE, value |-> Get(IntLiterals, attr, 0)]

\* int(item.attrib.get('severity')): ok is FALSE where int() raises
\* (ValueError for "abc", TypeError for None).
ParseSeverity(attr) ==
    IF attr \in DOMAIN IntLiterals
    THEN [ok |-> TRUE, value |-> IntLiterals[attr]]
    ELSE [ok |-> FALSE, value |-> 0]

(* ------------------------- parse_nessus_xml ---------------------------- *)

RECURSIVE TagsToDict(_)
\* for tag in host_properties.findall('tag'): host_props[name] = tag.text
TagsToDict(tags) ==
    IF tags = << >> THEN EmptyDict
    ELSE LET n == Len(tags)
         IN  (tags[n].name :> tags[n].text) @@ TagsToDict(SubSeq(tags, 1, n - 1))

\* host_props of a ReportHost: empty when it has no HostProperties.
HostProps(tree) == IF tree.present THEN TagsToDict(tree.tags) ELSE EmptyDict

\* {0: 0, 1: 0, 2: 0, 3: 0, 4: 0}
ZeroCounts == [s \in 0..4 |-> 0]

\* A faulty variant of IsCompliance: every item is taken for a compliance check.
IsCompliance_Always(plugin_family) == plugin_family = plugin_family

\* plugin_family == 'Policy Compliance'
IsCompliance(plugin_family) == plugin_family = ComplianceFamily

\* A faulty variant of IncrementCount: Info findings are not counted.
IncrementCount_SkipInfo(counts, severity) ==
    IF severity = 0 THEN counts ELSE [counts EXCEPT ![severity] = @ + 1]

\* host_vuln_counts[severity] += 1 (severity a key of counts)
IncrementCount(counts, severity) == [counts EXCEPT ![severity] = @ + 1]

\* SEVERITY_MAP.get(severity, 'Unknown')
SeverityLabel(severity) == Get(SEVERITY_MAP, severity, "Unknown")

ComplianceDict(item, severity, host_ip, host_fqdn) ==
    ("File" :> FilePath) @@ ("IP Address" :> host_ip) @@ ("FQDN" :> host_fqdn)
    @@ ("Plugin ID" :> Attr(item, "pluginID")) @@ ("Severity" :> severity)
    @@ ("Plugin Name" :> Attr(item, "pluginName"))
    @@ ("Audit File" :> FindText(item, "cm:compliance-audit-file"))
    @@ ("Check Name" :> FindText(item, "cm:compliance-check-name"))
    @@ ("Result" :> FindText(item, "cm:compliance-result"))
    @@ ("Actual Value" :> FindText(item, "cm:compliance-actual-value"))
    @@ ("Policy Value" :> FindText(item, "cm:compliance-policy-value"))
    @@ ("Info" :> FindText(item, "cm:compliance-info"))
    @@ ("Solution" :> FindText(item, "cm:compliance-solution"))
    @@ ("See Also" :> FindText(item, "cm:compliance-see-also"))

\* A faulty variant of VulnDict: the record carries the FQDN in its IP Address too.
VulnDict_WrongHost(item, severity, host_ip, host_fqdn) ==
    ("File" :> FilePath) @@ ("IP Address" :> host_fqdn) @@ ("FQDN" :> host_fqdn)
    @@ ("Port" :> Attr(item, "port")) @@ ("Protocol" :> Attr(item, "protocol"))
    @@ ("Service" :> Attr(item, "svc_name"))
    @@ ("Plugin ID" :> Attr(item, "pluginID"))
    @@ ("Plugin Name" :> Attr(item, "pluginName"))
    @@ ("Plugin Family" :> Attr(item, "pluginFamily"))
    @@ ("Severity" :> severity) @@ ("Severity Label" :> SeverityLabel(severity))
    @@ ("CVSS Base Score" :> FindText(item, "cvss_base_score"))
    @@ ("CVSS Vector" :> FindText(item, "cvss_vector"))
    @@ ("Description" :> FindText(item, "description"))
    @@ ("Solution" :> FindText(item, "solution"))
    @@ ("Synopsis" :> FindText(item, "synopsis"))
    @@ ("Exploitability Ease" :> FindText(item, "exploitability_ease"))

VulnDict(item, severity, host_ip, host_fqdn) ==
    ("File" :> FilePath) @@ ("IP Address" :> host_ip) @@ ("FQDN" :> host_fqdn)
    @@ ("Port" :> Attr(item, "port")) @@ ("Protocol" :> Attr(item, "protocol"))
    @@ ("Service" :> Attr(item, "svc_name"))
    @@ ("Plugin ID" :> Attr(item, "pluginID"))
    @@ ("Plugin Name" :> Attr(item, "pluginName"))
    @@ ("Plugin Family" :> Attr(item, "pluginFamily"))
    @@ ("Severity" :> severity) @@ ("Severity Label" :> SeverityLabel(severity))
    @@ ("CVSS Base Score" :> FindText(item, "cvss_base_score"))
    @@ ("CVSS Vector" :> FindText(item, "cvss_vector"))
    @@ ("Description" :> FindText(item, "description"))
    @@ ("Solution" :> FindText(item, "solution"))
    @@ ("Synopsis" :> FindText(item, "synopsis"))
    @@ ("Exploitability Ease" :> FindText(item, "exploitability_ease"))

HostDict(host_ip, host_fqdn, host_os, counts) ==
    ("IP Address" :> host_ip) @@ ("FQDN" :> host_fqdn)
    @@ ("Operating System" :> host_os)
    @@ ("Critical" :> counts[4]) @@ ("High" :> counts[3])
    @@ ("Medium" :> counts[2]) @@ ("Low" :> counts[1]) @@ ("Info" :> counts[0])
    @@ ("Total" :> counts[0] + counts[1] + counts[2] + counts[3] + counts[4])

\* The ReportItem elements read so far, over all hosts.
ItemsRead == SumTo([h \in 1..Len(doc) |-> Len(doc[h].items)], Len(doc))

parseVars == <<ip, fqdn, os_name, host_vuln_counts, hosts_data, vulnerabilities,
               compliance_items>>
writeVars == <<workbook, cells_str, cells_num, chart, output_written>>

\* os.path.exists(file_path) is false: sys.exit(1).
FileNotFound ==
    /\ pc = "parse"
    /\ file' = "missing"
    /\ pc' = "exit"
    /\ UNCHANGED <<doc, parseVars, writeVars>>

\* etree.parse raises: sys.exit(1).
XmlParseError ==
    /\ pc = "parse"
    /\ file' = "malformed"
    /\ pc' = "exit"
    /\ UNCHANGED <<doc, parseVars, writeVars>>

\* root.find('Report') is None: sys.exit(1).
NoReportTag ==
    /\ pc = "parse"
    /\ file' = "noreport"
    /\ pc' = "exit"
    /\ UNCHANGED <<doc, parseVars, writeVars>>

\* The file parses and has a Report: the loop over its ReportHost starts.
OpenReport ==
    /\ pc = "parse"
    /\ file' = "report"
    /\ pc' = "hosts"
    /\ UNCHANGED <<doc, parseVars, writeVars>>

\* The next ReportHost: its properties are read, its counts start at 0.
BeginHost(tree) ==
    /\ pc = "hosts"
    /\ Len(doc) < MaxHosts
    /\ doc' = Append(doc, [props |-> tree, items |-> << >>])
    /\ ip' = Get(HostProps(tree), "host-ip", NA)
    /\ fqdn' = Get(HostProps(tree), "host-fqdn", NA)
    /\ os_name' = Get(HostProps(tree), "operating-system", NA)
    /\ host_vuln_counts' = ZeroCounts
    /\ pc' = "items"
    /\ UNCHANGED <<file, hosts_data, vulnerabilities, compliance_items, writeVars>>

\* One iteration of the loop over the host's ReportItem elements.
ParseItem(item) ==
    /\ pc = "items"
    /\ ItemsRead < MaxItems
    /\ doc' = [doc EXCEPT ![Len(doc)].items = Append(@, item)]
    /\ LET parsed == ParseSeverity(Attr(item, "severity"))
           severity == parsed.value
       IN  IF ~parsed.ok
           THEN \* int() raises; nothing catches it
                /\ pc' = "crash"
                /\ UNCHANGED <<host_vuln_counts, vulnerabilities, compliance_items>>
           ELSE IF IsCompliance(Attr(item, "pluginFamily"))
           THEN /\ compliance_items' =
                       Append(compliance_items, ComplianceDict(item, severity, ip, fqdn))
                /\ pc' = "items"
                /\ UNCHANGED <<host_vuln_counts, vulnerabilities>>
           ELSE IF severity \notin DOMAIN host_vuln_counts
           THEN \* host_vuln_counts[severity] raises KeyError
                /\ pc' = "crash"
                /\ UNCHANGED <<host_vuln_counts, vulnerabilities, compliance_items>>
           ELSE /\ host_vuln_counts' = IncrementCount(host_vuln_counts, severity)
                /\ vulnerabilities' =
                       Append(vulnerabilities, VulnDict(item, severity, ip, fqdn))
                /\ pc' = "items"
                /\ UNCHANGED compliance_items
    /\ UNCHANGED <<file, ip, fqdn, os_name, hosts_data, writeVars>>

\* The host has no more items: its record is appended to hosts_data.
EndHost ==
    /\ pc = "items"
    /\ hosts_data' = Append(hosts_data, HostDict(ip, fqdn, os_name, host_vuln_counts))
    /\ pc' = "hosts"
    /\ UNCHANGED <<file, doc, ip, fqdn, os_name, host_vuln_counts, vulnerabilities,
                   compliance_items, writeVars>>

\* The report has no more hosts: parse_nessus_xml returns to main.
ReturnParsed ==
    /\ pc = "hosts"
    /\ pc' = "parsed"
    /\ UNCHANGED <<file, doc, parseVars, writeVars>>

(* ----------------------- create_dashboard_chart ------------------------- *)

\* The column letters of the A1 references the program uses.
ColIndex == ("A" :> 0) @@ ("B" :> 1) @@ ("C" :> 2) @@ ("D" :> 3)

\* An A1 reference such as 'A20': a column letter and a 1-based row.
Cell(col, row) == [col |-> col, row |-> row]

\* The 0-based <<row, col>> that worksheet.write gives an A1 reference.
RowCol(cell) == <<cell.row - 1, ColIndex[cell.col]>>

\* The cells of a range such as '=Home!$A$21:$A$25', first to last.
RangeCells(range) ==
    [i \in 1..(range.last - range.first + 1) |->
        RowCol(Cell(range.col, range.first + i - 1))]

\* for sev in ['Critical', 'High', 'Medium', 'Low', 'Info']
ChartLabels == <<"Critical", "High", "Medium", "Low", "Info">>

\* row = 20: the 0-based row of the first summary line.
SummaryFirstRow == 20

RECURSIVE CountSeverities(_)
\* severity_counts after the loop over vulnerabilities: a record whose
\* severity has no label is not counted.
CountSeverities(vulns) ==
    IF vulns = << >> THEN [l \in {ChartLabels[i] : i \in 1..5} |-> 0]
    ELSE LET n == Len(vulns)
             rest == CountSeverities(SubSeq(vulns, 1, n - 1))
             label == Get(SEVERITY_MAP, vulns[n]["Severity"], None)
         IN  IF label = None THEN rest ELSE [rest EXCEPT ![label] = @ + 1]

\* The strings create_dashboard_chart writes on Home.
SummaryLabels ==
    (RowCol(Cell("A", 20)) :> "Severity") @@ (RowCol(Cell("B", 20)) :> "Count")
    @@ [rc \in {<<SummaryFirstRow + i - 1, 0>> : i \in 1..5} |->
            ChartLabels[rc[1] - SummaryFirstRow + 1]]

\* The numbers create_dashboard_chart writes on Home.
SummaryCounts(vulns) ==
    [rc \in {<<SummaryFirstRow + i - 1, 1>> : i \in 1..5} |->
        CountSeverities(vulns)[ChartLabels[rc[1] - SummaryFirstRow + 1]]]

\* A faulty variant of CategoriesRange: the range starts at the header line.
CategoriesRange_WithHeader == [sheet |-> "Home", col |-> "A", first |-> 20, last |-> 24]

\* 'categories': '=Home!$A$21:$A$25'
CategoriesRange == [sheet |-> "Home", col |-> "A", first |-> 21, last |-> 25]

\* 'values': '=Home!$B$21:$B$25'
ValuesRange == [sheet |-> "Home", col |-> "B", first |-> 21, last |-> 25]

\* The chart inserted on Home.
DashboardChart ==
    [type |-> "column", name |-> "Vulnerabilities by Severity",
     categories |-> CategoriesRange, values |-> ValuesRange,
     points |-> [i \in 1..5 |-> COLORS[ChartLabels[i]]],
     title |-> "Scan Summary", anchor |-> Cell("D", 2)]

(* ----------------------------- write_excel ----------------------------- *)

HomeCols == <<"Scan Date", "Total Hosts", "Total Vulnerabilities", "Total Compliance Checks">>

HostCols ==
    <<"IP Address", "FQDN", "Operating System", "Critical", "High", "Medium", "Low",
      "Info", "Total">>

DispCols ==
    <<"IP Address", "FQDN", "Port", "Protocol", "Service", "Plugin ID", "Plugin Name",
      "CVSS Base Score", "Description", "Solution">>

\* The keys of compliance_dict, in insertion order.
ComplianceCols ==
    <<"File", "IP Address", "FQDN", "Plugin ID", "Severity", "Plugin Name", "Audit File",
      "Check Name", "Result", "Actual Value", "Policy Value", "Info", "Solution",
      "See Also">>

\* df[cols].to_excel(writer, sheet_name=name, index=False): a sheet with a
\* header and one row per record, in the records' order.
ToExcel(name, records, cols, color) ==
    [name |-> name, columns |-> cols,
     rows |-> [i \in 1..Len(records) |-> [c \in 1..Len(cols) |-> records[i][cols[c]]]],
     tab_color |-> color]

\* The Home sheet: home_df has one row.
HomeSheet(hosts, vulns, comps) ==
    ToExcel("Home",
            << ("Scan Date" :> ScanDate) @@ ("Total Hosts" :> Len(hosts))
               @@ ("Total Vulnerabilities" :> Len(vulns))
               @@ ("Total Compliance Checks" :> Len(comps)) >>,
            HomeCols, None)

\* if hosts_data: the Host Summary sheet
HostSummarySheets(hosts) ==
    IF hosts # << >> THEN << ToExcel("Host Summary", hosts, HostCols, None) >> ELSE << >>

\* A faulty variant of SeverityOrder: the sheets are written from Info to Critical.
SeverityOrder_Ascending == <<0, 1, 2, 3, 4>>

\* for severity_val in [4, 3, 2, 1, 0]
SeverityOrder == <<4, 3, 2, 1, 0>>

\* A faulty variant of FilterBySeverity: the sheet takes the severity and above.
FilterBySeverity_AtLeast(vulns, severity_val) ==
    SelectSeq(vulns, LAMBDA v : v["Severity"] >= severity_val)

\* df_vulns[df_vulns['Severity'] == severity_val]
FilterBySeverity(vulns, severity_val) ==
    SelectSeq(vulns, LAMBDA v : v["Severity"] = severity_val)

\* A faulty variant of NotEmpty: the sheet is written whatever the subset holds.
NotEmpty_Always(subset) == subset = subset

\* not subset.empty
NotEmpty(subset) == subset # << >>

RECURSIVE SeveritySheetsFrom(_, _)
\* The iterations i, i+1, ... of the loop over the severities.
SeveritySheetsFrom(vulns, i) ==
    IF i > Len(SeverityOrder) THEN << >>
    ELSE LET severity_val == SeverityOrder[i]
             sev_label == SEVERITY_MAP[severity_val]
             subset == FilterBySeverity(vulns, severity_val)
         IN  (IF NotEmpty(subset)
              THEN << ToExcel(sev_label, subset, DispCols, COLORS[sev_label]) >>
              ELSE << >>)
             \o SeveritySheetsFrom(vulns, i + 1)

\* if vulnerabilities: the severity sheets
VulnSheets(vulns) == IF vulns # << >> THEN SeveritySheetsFrom(vulns, 1) ELSE << >>

\* if compliance_items: the Compliance sheet
ComplianceSheets(comps) ==
    IF comps # << >>
    THEN << ToExcel("Compliance", comps, ComplianceCols, "#800080") >>
    ELSE << >>

\* main calls write_excel with what parse_nessus_xml returned; the file is
\* written by writer.close().
WriteExcel ==
    /\ pc = "parsed"
    /\ workbook' = << HomeSheet(hosts_data, vulnerabilities, compliance_items) >>
                   \o HostSummarySheets(hosts_data)
                   \o VulnSheets(vulnerabilities)
                   \o ComplianceSheets(compliance_items)
    /\ cells_str' = (<<3, 0>> :> "Host Summary") @@ SummaryLabels
    /\ cells_num' = SummaryCounts(vulnerabilities)
    /\ chart' = DashboardChart
    /\ output_written' = TRUE
    /\ pc' = "done"
    /\ UNCHANGED <<file, doc, parseVars>>

(* ------------------------------- main ---------------------------------- *)

Init ==
    /\ pc = "parse"
    /\ file = "unread"
    /\ doc = << >>
    /\ ip = None
    /\ fqdn = None
    /\ os_name = None
    /\ host_vuln_counts = ZeroCounts
    /\ hosts_data = << >>
    /\ vulnerabilities = << >>
    /\ compliance_items = << >>
    /\ workbook = << >>
    /\ cells_str = EmptyDict
    /\ cells_num = EmptyDict
    /\ chart = [type |-> "none"]
    /\ output_written = FALSE

Next ==
    \/ FileNotFound
    \/ XmlParseError
    \/ NoReportTag
    \/ OpenReport
    \/ \E tree \in PropTrees : BeginHost(tree)
    \/ \E item \in Items : ParseItem(item)
    \/ EndHost
    \/ ReturnParsed
    \/ WriteExcel

Spec == Init /\ [][Next]_vars

(* ------------------------ reading the state ---------------------------- *)

\* parse_nessus_xml has returned.
Returned == pc \in {"parsed", "done"}

\* The ReportItem is a compliance check by the document's own pluginFamily.
IsPolicyItem(item) == Attr(item, "pluginFamily") = "Policy Compliance"

\* The number of ReportItem elements under host h that are no compliance check.
FindingItems(h) ==
    Cardinality({i \in 1..Len(doc[h].items) : ~IsPolicyItem(doc[h].items[i])})

\* Critical + High + Medium + Low + Info of a host record.
SeveritySum(r) == r["Critical"] + r["High"] + r["Medium"] + r["Low"] + r["Info"]

RECURSIVE Flatten(_)
\* The ReportItem elements of the hosts d, in document order, each with the
\* index of its host.
Flatten(d) ==
    IF d = << >> THEN << >>
    ELSE LET n == Len(d)
         IN  Flatten(SubSeq(d, 1, n - 1))
             \o [i \in 1..Len(d[n].items) |-> [host |-> n, item |-> d[n].items[i]]]

\* The identity of a host or finding record.
Identity(r) == <<r["IP Address"], r["FQDN"]>>

\* The findings that carry the identity id.
FindingsOf(id) == {k \in 1..Len(vulnerabilities) : Identity(vulnerabilities[k]) = id}

\* The sheet of the workbook with the given name, if any.
SheetsNamed(name) == {i \in 1..Len(workbook) : workbook[i].name = name}

SheetNames == [i \in 1..Len(workbook) |-> workbook[i].name]

\* The severities of the document's items that int() cannot read.
Unparseable(item) == Attr(item, "severity") \notin {"0", "1", "2", "3", "4", "7"}

FatalCondition ==
    \/ file \in {"missing", "malformed", "noreport"}
    \/ \E h \in 1..Len(doc) : \E i \in 1..Len(doc[h].items) : Unparseable(doc[h].items[i])

(* ------------------------------ claims --------------------------------- *)

\* C1: for every host record, Critical + High + Medium + Low + Info equals
\* Total, and Total equals the number of the host's ReportItem elements whose
\* pluginFamily is not 'Policy Compliance'.
C1_CountsSumToTotal ==
    \A h \in 1..Len(hosts_data) :
        /\ SeveritySum(hosts_data[h]) = hosts_data[h]["Total"]
        /\ hosts_data[h]["Total"] = FindingItems(h)

\* C1 witness: a returned host with an Info finding and a compliance item.
C1_Witness ==
    /\ Returned
    /\ \E h \in 1..Len(hosts_data) :
        /\ hosts_data[h]["Info"] = 1
        /\ Len(doc[h].items) = 2
        /\ \E i \in 1..2 : IsPolicyItem(doc[h].items[i])

C3_UnknownSeverityTolerated ==
    \A h \in 1..Len(doc) : \A i \in 1..Len(doc[h].items) :
        LET item == doc[h].items[i]
        IN  (~IsPolicyItem(item) /\ Attr(item, "severity") = "7") =>
                /\ pc # "crash"
                /\ \E k \in 1..Len(vulnerabilities) :
                    /\ vulnerabilities[k]["Severity"] = 7
                    /\ vulnerabilities[k]["Severity Label"] = "Unknown"

\* C4: once a fatal condition has occurred (file not found, unparseable XML,
\* no Report element, a ReportItem whose severity is not an integer), the run
\* has ended with an error and write_excel has not started: no sheet, no cell,
\* no output file.
C4_FatalNeverWrites ==
    FatalCondition =>
        /\ pc \in {"exit", "crash"}
        /\ workbook = << >>
        /\ cells_str = EmptyDict
        /\ cells_num = EmptyDict
        /\ ~output_written

\* C4 witness: the run ended at severity "abc" after a finding was recorded.
C4_Witness ==
    /\ pc = "crash"
    /\ Len(vulnerabilities) = 1
    /\ \E h \in 1..Len(doc) : \E i \in 1..Len(doc[h].items) :
        Attr(doc[h].items[i], "severity") = "abc"

\* C5: the IP Address, FQDN and Operating System of a host record, and the
\* IP Address and FQDN copied into its finding and compliance records, are
\* never null.
C5_HostFieldsNeverNull ==
    /\ \A h \in 1..Len(hosts_data) :
        /\ hosts_data[h]["IP Address"] # None
        /\ hosts_data[h]["FQDN"] # None
        /\ hosts_data[h]["Operating System"] # None
    /\ \A k \in 1..Len(vulnerabilities) :
        vulnerabilities[k]["IP Address"] # None /\ vulnerabilities[k]["FQDN"] # None
    /\ \A k \in 1..Len(compliance_items) :
        compliance_items[k]["IP Address"] # None /\ compliance_items[k]["FQDN"] # None

\* C6 as stated: for every host, the sum of its five severity counts equals
\* the number of findings whose identity (IP Address, FQDN) is the host's,
\* also when several hosts carry the same identity.
C6_SumEqualsMatchingFindings ==
    Returned =>
        \A h \in 1..Len(hosts_data) :
            SeveritySum(hosts_data[h]) = Cardinality(FindingsOf(Identity(hosts_data[h])))

\* C6 amended: for every host, the number of findings whose identity is the
\* host's equals the sum of the five severity counts over all host records
\* with that identity; it is the host's own sum when no other host shares
\* its identity.
C6_SumOverSharedIdentity ==
    Returned =>
        \A h \in 1..Len(hosts_data) :
            LET id == Identity(hosts_data[h])
                sums == [g \in 1..Len(hosts_data) |->
                            IF Identity(hosts_data[g]) = id
                            THEN SeveritySum(hosts_data[g]) ELSE 0]
            IN  /\ Cardinality(FindingsOf(id)) = SumTo(sums, Len(hosts_data))
                /\ (\A g \in 1..Len(hosts_data) : g # h => Identity(hosts_data[g]) # id)
                    => Cardinality(FindingsOf(id)) = SeveritySum(hosts_data[h])

\* C6 witness: two returned hosts of different identity, each with a finding.
C6_Witness ==
    /\ Returned
    /\ Len(hosts_data) = 2
    /\ Identity(hosts_data[1]) # Identity(hosts_data[2])
    /\ hosts_data[1]["IP Address"] # hosts_data[1]["FQDN"]
    /\ SeveritySum(hosts_data[1]) = 1
    /\ SeveritySum(hosts_data[2]) = 1

\* C7: in the written workbook a severity sheet exists if and only if some
\* finding has that severity, the Compliance sheet exists if and only if
\* there is a compliance record, and none of these sheets is empty.
C7_Omission ==
    pc = "done" =>
        /\ \A s \in 0..4 :
            (SheetsNamed(SEVERITY_MAP[s]) # {})
                <=> (\E k \in 1..Len(vulnerabilities) : vulnerabilities[k]["Severity"] = s)
        /\ (SheetsNamed("Compliance") # {}) <=> (compliance_items # << >>)
        /\ \A i \in 1..Len(workbook) :
            workbook[i].name \in {"Critical", "High", "Medium", "Low", "Info", "Compliance"}
                => workbook[i].rows # << >>

\* C7 witness: a workbook with a High sheet, a Compliance sheet and no other
\* severity sheet.
C7_Witness ==
    /\ pc = "done"
    /\ SheetsNamed("High") # {}
    /\ SheetsNamed("Compliance") # {}
    /\ \A l \in {"Critical", "Medium", "Low", "Info"} : SheetsNamed(l) = {}

\* The labels of the severities that have a finding, from Critical to Info.
PresentLabels ==
    SelectSeq(<<"Critical", "High", "Medium", "Low", "Info">>,
              LAMBDA l : \E k \in 1..Len(vulnerabilities) :
                            vulnerabilities[k]["Severity Label"] = l)

\* <<"Compliance">> when there is a compliance record.
ComplianceLast == IF compliance_items # << >> THEN <<"Compliance">> ELSE << >>

\* The Host Summary sheet has one row per host record, in the fixed columns.
HostSummaryRows ==
    \A i \in SheetsNamed("Host Summary") :
        /\ workbook[i].columns =
              <<"IP Address", "FQDN", "Operating System", "Critical", "High", "Medium",
                "Low", "Info", "Total">>
        /\ Len(workbook[i].rows) = Len(hosts_data)
        /\ \A h \in 1..Len(hosts_data) :
            /\ workbook[i].rows[h][1] = hosts_data[h]["IP Address"]
            /\ workbook[i].rows[h][2] = hosts_data[h]["FQDN"]
            /\ workbook[i].rows[h][3] = hosts_data[h]["Operating System"]
            /\ workbook[i].rows[h][4] = hosts_data[h]["Critical"]
            /\ workbook[i].rows[h][5] = hosts_data[h]["High"]
            /\ workbook[i].rows[h][6] = hosts_data[h]["Medium"]
            /\ workbook[i].rows[h][7] = hosts_data[h]["Low"]
            /\ workbook[i].rows[h][8] = hosts_data[h]["Info"]
            /\ workbook[i].rows[h][9] = hosts_data[h]["Total"]

\* C8 as stated: every written workbook has Home, then Host Summary, then
\* the present severity sheets from Critical to Info, then Compliance if
\* present, also for a document without hosts.
C8_SheetOrderAlwaysHostSummary ==
    pc = "done" =>
        /\ SheetNames = <<"Home", "Host Summary">> \o PresentLabels \o ComplianceLast
        /\ HostSummaryRows

\* C8 amended: every written workbook has Home, then Host Summary if there
\* is at least one host record (one row per record, in the fixed columns),
\* then the present severity sheets from Critical to Info, then Compliance
\* if present; for a document without hosts the workbook is Home alone.
C8_SheetOrder ==
    pc = "done" =>
        /\ SheetNames = <<"Home">>
                        \o (IF hosts_data # << >> THEN <<"Host Summary">> ELSE << >>)
                        \o PresentLabels \o ComplianceLast
        /\ HostSummaryRows
        /\ hosts_data = << >> => SheetNames = <<"Home">>

\* C8 witness: a workbook of Home, Host Summary, Critical and Low.
C8_Witness ==
    /\ pc = "done"
    /\ SheetNames = <<"Home", "Host Summary", "Critical", "Low">>

\* C9: for each severity with a finding, the rows of its sheet are exactly
\* the findings of that severity, in the order of the findings list, each
\* projected onto the ten displayed columns in their order; so every finding
\* is on exactly one severity sheet.
C9_SeveritySheetRoundTrip ==
    pc = "done" =>
        /\ \A s \in {4, 3, 2, 1, 0} :
            LET expected == SelectSeq(vulnerabilities, LAMBDA v : v["Severity"] = s)
            IN  expected # << >> =>
                    /\ Cardinality(SheetsNamed(SEVERITY_MAP[s])) = 1
                    /\ \A i \in SheetsNamed(SEVERITY_MAP[s]) :
                        /\ workbook[i].columns =
                              <<"IP Address", "FQDN", "Port", "Protocol", "Service",
                                "Plugin ID", "Plugin Name", "CVSS Base Score",
                                "Description", "Solution">>
                        /\ Len(workbook[i].rows) = Len(expected)
                        /\ \A j \in 1..Len(expected) : \A c \in 1..10 :
                            workbook[i].rows[j][c] = expected[j][workbook[i].columns[c]]
        /\ \A k \in 1..Len(vulnerabilities) : vulnerabilities[k]["Severity"] \in 0..4
        /\ LET severity_rows ==
                   [i \in 1..Len(workbook) |->
                       IF workbook[i].name \in {"Critical", "High", "Medium", "Low", "Info"}
                       THEN Len(workbook[i].rows) ELSE 0]
           IN  SumTo(severity_rows, Len(workbook)) = Len(vulnerabilities)

\* C9 witness: a Medium sheet whose two rows come from different hosts.
C9_Witness ==
    /\ pc = "done"
    /\ \E i \in SheetsNamed("Medium") :
        /\ Len(workbook[i].rows) = 2
        /\ workbook[i].rows[1][1] # workbook[i].rows[2][1]

\* C10: the chart's category range and value range are exactly the five
\* cells in which the labels Critical, High, Medium, Low, Info and their
\* counts were written (no header, no empty cell), each count is the number
\* of findings of that severity, and the five counts sum to Total
\* Vulnerabilities on Home.
C10_ChartMatchesSummaryCells ==
    pc = "done" =>
        LET cats == RangeCells(chart.categories)
            vals == RangeCells(chart.values)
            labels == <<"Critical", "High", "Medium", "Low", "Info">>
            sevs == <<4, 3, 2, 1, 0>>
        IN  /\ chart.categories.sheet = "Home" /\ chart.values.sheet = "Home"
            /\ Len(cats) = 5 /\ Len(vals) = 5
            /\ \A i \in 1..5 :
                /\ cats[i] \in DOMAIN cells_str
                /\ cells_str[cats[i]] = labels[i]
                /\ vals[i] \in DOMAIN cells_num
                /\ cells_num[vals[i]] =
                      Cardinality({k \in 1..Len(vulnerabilities) :
                                      vulnerabilities[k]["Severity"] = sevs[i]})
                /\ vals[i][1] = cats[i][1]
            /\ {rc \in DOMAIN cells_str : cells_str[rc] \in {labels[i] : i \in 1..5}}
                  = {cats[i] : i \in 1..5}
            /\ DOMAIN cells_num = {vals[i] : i \in 1..5}
            /\ SumTo([i \in 1..5 |-> cells_num[vals[i]]], 5) = workbook[1].rows[1][3]
            /\ workbook[1].columns[3] = "Total Vulnerabilities"

\* C10 witness: a written Home sheet whose chart shows one Critical and one
\* Info finding.
C10_Witness ==
    /\ pc = "done"
    /\ cells_num[<<20, 1>>] = 1
    /\ cells_num[<<24, 1>>] = 1

====
